---- MODULE Spec2Model ----
(***************************************************************************)
(* Persistence layer of the RPG Maker MZ MCP server.                       *)
(*                                                                         *)
(* The on-disk database is a set of JSON files (entity collections, the    *)
(* map index, one body file per map, the system file holding the version   *)
(* counter), each with an optional sibling backup.  Tool handlers are      *)
(* async functions: every await is a suspension point, so a handler is a   *)
(* little state machine and several handlers can be in flight at once.     *)
(* FileHandler (src/unnamed/part_000) and the tool handlers are modelled   *)
(* from the source; SafeWriter (utils/safeWriter.ts) is not among the      *)
(* source files and is modelled from the design specification, section 4.  *)
(***************************************************************************)
EXTENDS Integers, Sequences, FiniteSets, TLC

\* ---------------------------------------------------------------- bounds
\* Requests a client that waits for each response sends in one run.
MaxOps == 2
\* Longest collection a create request is accepted for.
MaxLen == 3
\* Largest map id a create_map request is accepted for.
MaxMapId == 2

\* ------------------------------------------------------------ JSON values
\* A collection entry: a populated record or the absence-marker (JSON null).
Null == [present |-> FALSE, id |-> 0, name |-> "", order |-> 0]

IsNull(e) == ~e.present

\* "undefined": an optional argument the request did not supply.
Undefined == "undefined"

\* File contents.  A file is absent, holds a complete JSON document, or is
\* torn: opened for writing (truncated) but not yet completely written.
Absent == [st |-> "absent"]
Torn == [st |-> "torn"]
Json(v) == [st |-> "ok", val |-> v]

\* ----------------------------------------------------------------- files
\* The engine root the test clients configure (part_003, part_004).
EngineRoot == "engine"

Collections == {"Items", "States"}
MapInfosFile == "MapInfos"
SystemFile == "System"
MapNames == <<"Map001", "Map002", "Map003", "Map004", "Map005", "Map006">>
MapFiles == {MapNames[i] : i \in 1..Len(MapNames)}
Files == Collections \cup {MapInfosFile, SystemFile} \cup MapFiles

\* mapTools.ts: `Map${String(id).padStart(3, "0")}.json`
MapFilename(id) == MapNames[id]

VARIABLES
    fs,         \* file name -> content of the file
    bak,        \* file name -> content of its sibling backup file (T.bak)
    req,        \* handler slot -> the request it runs and where it stands
    client,     \* how the client sends: "seq" or "burst"
    ops,        \* requests accepted so far
    killed,     \* the server process has been killed (and started again)
    enginePath, \* FileHandler's optional engine root (RPGMAKER_ENGINE_PATH)
    log         \* observations kept for the properties (not program state)

vars == <<fs, bak, req, client, ops, killed, enginePath, log>>

\* Handler slots: two requests can be in flight at once.
Slots == {1, 2}


\* ------------------------------------------------- FileHandler (part_000)
\* readJson: fs.readFile then JSON.parse.  It throws when the file is
\* missing and when the content does not parse (a torn file does not).
ReadJson(fsys, f) ==
    IF fsys[f].st = "ok" THEN [ok |-> TRUE, val |-> fsys[f].val]
    ELSE [ok |-> FALSE, val |-> <<>>]

\* Faulty variant of exists: it reports every file as present.
ExistsAlways(fsys, f) == TRUE

\* exists: fs.access succeeds on any file that is there, whatever it holds.
Exists(fsys, f) == fsys[f].st # "absent"

\* Faulty variant of backup: an existing backup file is not overwritten.
BackupKeepsFirst(fsys, baks, f, denied) ==
    IF denied \/ fsys[f].st = "absent"
    THEN [ok |-> FALSE, bak |-> baks]
    ELSE [ok |-> TRUE,
          bak |-> IF baks[f].st = "absent" THEN [baks EXCEPT ![f] = fsys[f]]
                  ELSE baks]

\* Faulty variant of backup: a failed copy is swallowed, the call returns.
BackupSilentFailure(fsys, baks, f, denied) ==
    IF denied \/ fsys[f].st = "absent"
    THEN [ok |-> TRUE, bak |-> baks]
    ELSE [ok |-> TRUE, bak |-> [baks EXCEPT ![f] = fsys[f]]]

\* backup: fs.copyFile(T, T.bak).  `denied` is the host refusing the copy
\* (permissions, disk); a missing source fails too.  A failure throws and
\* leaves the backup as it was.
Backup(fsys, baks, f, denied) ==
    IF denied \/ fsys[f].st = "absent"
    THEN [ok |-> FALSE, bak |-> baks]
    ELSE [ok |-> TRUE, bak |-> [baks EXCEPT ![f] = fsys[f]]]

\* Faulty variant of writeJson: a refused open is swallowed, the call
\* returns without having written anything.
WriteOpenSilentFailure(fsys, f, denied) ==
    IF denied THEN [ok |-> TRUE, opened |-> FALSE, fs |-> fsys]
    ELSE [ok |-> TRUE, opened |-> TRUE, fs |-> [fsys EXCEPT ![f] = Torn]]

\* writeJson, first half: fs.writeFile opens the target with flag "w", which
\* creates or truncates it.  `denied` is the host refusing the open; the
\* call then throws and the target is untouched.  `opened` tells whether the
\* target was opened, that is, whether the content is going to be written.
WriteOpen(fsys, f, denied) ==
    IF denied THEN [ok |-> FALSE, opened |-> FALSE, fs |-> fsys]
    ELSE [ok |-> TRUE, opened |-> TRUE, fs |-> [fsys EXCEPT ![f] = Torn]]

\* writeJson, second half: the serialized document is written and the file
\* closed; from then on the target holds the complete new content.
WriteFlush(fsys, f, content) == [fsys EXCEPT ![f] = Json(content)]

\* ------------------------------------------------------ tool handlers
\* The result a handler returns: isError is the explicit failure flag, id
\* the id the success message reports (0 when it reports none).
OkResult(id) == [isError |-> FALSE, id |-> id]

\* Faulty variant of the error result: the failure flag is left out.
ErrorResultUnflagged == [isError |-> FALSE, id |-> 0]

\* The catch block of every handler, and the explicit rejections:
\* { content: [...], isError: true }.
ErrorResult == [isError |-> TRUE, id |-> 0]

\* Faulty variant of the catch block: it removes the body file a failed map
\* creation has written.
CatchRemovesBody(fsys, r) ==
    IF r.op = "createMap" /\ r.bodyWrote
    THEN [fsys EXCEPT ![MapFilename(r.newId)] = Absent]
    ELSE fsys

\* What the catch block of a handler does to the files when the write of
\* request `r` has thrown: nothing, it only builds the error result.
Catch(fsys, r) == fsys

\* createDefaultItem(id) followed by the field assignments of create_item.
createDefaultItem(id, name) ==
    [present |-> TRUE, id |-> id, name |-> name, order |-> 0]

\* Faulty variant of the id choice: one past the length.
NewIdOffByOne(items) == Len(items) + 1

\* create_item (and every other create_*): const newId = items.length.
NewId(items) == Len(items)

\* create_item: items.push(newItem).
Push(items, e) == Append(items, e)

\* Faulty variant of the rejection: an absence-marker is not rejected.
UpdateRejectedBeyondOnly(items, id) == id >= Len(items)

\* update_item: id >= items.length || items[id] === null  (JS indices are
\* 0-based: items[id] is the model's items[id + 1]).
UpdateRejected(items, id) == id >= Len(items) \/ IsNull(items[id + 1])

\* update_item: if (name !== undefined) item.name = name.
ApplyUpdate(items, id, name) ==
    IF name = Undefined THEN items
    ELSE [items EXCEPT ![id + 1].name = name]

\* set_database_limit, expansion: while (data.length < targetLength)
\* data.push(null).
RECURSIVE Expand(_, _)
Expand(data, targetLength) ==
    IF Len(data) < targetLength THEN Expand(Append(data, Null), targetLength)
    ELSE data

\* Faulty variant of the shrink: it pops populated entries too.
RECURSIVE ShrinkUnchecked(_, _)
ShrinkUnchecked(data, targetLength) ==
    IF Len(data) > targetLength
    THEN ShrinkUnchecked(SubSeq(data, 1, Len(data) - 1), targetLength)
    ELSE [ok |-> TRUE, data |-> data]

\* set_database_limit, shrink: pop trailing entries while the collection is
\* longer than the target; a populated last entry rejects the request.
RECURSIVE Shrink(_, _)
Shrink(data, targetLength) ==
    IF Len(data) > targetLength
    THEN IF ~IsNull(data[Len(data)])
         THEN [ok |-> FALSE, data |-> data]
         ELSE Shrink(SubSeq(data, 1, Len(data) - 1), targetLength)
    ELSE [ok |-> TRUE, data |-> data]

\* set_database_limit: targetLength = limit + 1, then expand, shrink or
\* leave the collection as it is.
Resize(data, limit) ==
    LET targetLength == limit + 1 IN
    IF targetLength > Len(data)
    THEN [ok |-> TRUE, data |-> Expand(data, targetLength)]
    ELSE IF targetLength < Len(data) THEN Shrink(data, targetLength)
    ELSE [ok |-> TRUE, data |-> data]

\* create_map: the position of the last populated descriptor, 0 if none.
LastPopulated(mapInfos) ==
    LET pop == {i \in 1..(Len(mapInfos) - 1) : ~IsNull(mapInfos[i + 1])}
    IN IF pop = {} THEN 0 ELSE CHOOSE i \in pop : \A j \in pop : j <= i

\* Faulty variant of the id choice of create_map: the length of the index is
\* not looked at.
NextMapIdIgnoresLength(mapInfos) == LastPopulated(mapInfos) + 1

\* create_map: the id after the last populated descriptor, or the length of
\* the index when that is larger.
NextMapId(mapInfos) ==
    LET newId == LastPopulated(mapInfos) + 1
    IN IF Len(mapInfos) > newId THEN Len(mapInfos) ELSE newId

\* create_map: the largest order among the populated descriptors, 0 if none.
MaxOrder(mapInfos) ==
    LET os == {mapInfos[i].order : i \in {j \in 1..Len(mapInfos) : ~IsNull(mapInfos[j])}}
    IN IF os = {} THEN 0 ELSE CHOOSE o \in os : \A q \in os : q <= o

\* create_map: the descriptor { id: newId, name, ..., order: maxOrder + 1 }.
MapInfo(mapInfos, name) ==
    [present |-> TRUE, id |-> NextMapId(mapInfos), name |-> name,
     order |-> MaxOrder(mapInfos) + 1]

\* create_map: createDefaultMap(width, height) with displayName assigned.
MapData(displayName) == [displayName |-> displayName]

\* update_map: if (displayName !== undefined) mapData.displayName = displayName.
ApplyMapUpdate(mapData, displayName) ==
    IF displayName = Undefined THEN mapData
    ELSE [mapData EXCEPT !.displayName = displayName]


\* ------------------------------------------- plugin tools (part_002)
\* Script text is a sequence of tokens: the "$plugins =" assignment head,
\* brackets, the semicolon, a registry entry (serialized JSON object), the
\* pieces a plugin header comment is made of (the opener "/*:", white
\* space, the newline, the star, "@target", "MZ", the closer), and any
\* other code or comment text.
Tok(k) == [k |-> k, name |-> "", desc |-> ""]

CommentTok == Tok("/*:")
SpaceTok == Tok(" ")
NewlineTok == Tok("nl")
StarTok == Tok("*")
TargetTok == Tok("@target")
MzTok == Tok("MZ")
EndCommentTok == Tok("*/")
AssignTok == Tok("assign")
OpenTok == Tok("open")
CloseTok == Tok("close")
SemiTok == Tok("semi")
CodeTok == Tok("code")

PluginNames == {"A", "B"}

\* The plugin script of a plugin: js/plugins/<filename>.js.
PluginFilename(name) == IF name = "A" THEN "A.js" ELSE "B.js"

RegistryFile == "plugins.js"

PluginFiles == {PluginFilename(n) : n \in PluginNames} \cup {RegistryFile}

\* \s of the header pattern.
IsBlank(t) == t.k \in {" ", "nl"}

\* The tokens strictly between positions `a` and `b` are white space.
Blanks(code, a, b) == \A x \in (a + 1)..(b - 1) : IsBlank(code[x])

\* MZ_HEADER_REGEX.test(code), /\/\*:\s*\n?\s*\*\s*@target\s+MZ/i: the
\* opener, white space, a star, white space, "@target", at least one white
\* space, "MZ".  The pattern is not anchored: a header anywhere in the
\* code is detected.
HasHeader(code) ==
    LET At(k, from) == {x \in from..Len(code) : code[x].k = k} IN
    \E i \in At("/*:", 1) :
      \E j \in At("*", i + 1) :
        /\ Blanks(code, i, j)
        /\ \E t \in At("@target", j + 1) :
             /\ Blanks(code, j, t)
             /\ \E m \in At("MZ", t + 2) : Blanks(code, t, m)

\* A line of the header comment: " * " and the text.
HeaderLine(text) == <<SpaceTok, StarTok, SpaceTok>> \o text \o <<NewlineTok>>

\* Faulty variant of the header: the description line comes before the
\* target line.
createPluginHeaderTargetLast(description) ==
    <<CommentTok, NewlineTok>>
    \o HeaderLine(<<[CodeTok EXCEPT !.desc = description]>>)
    \o HeaderLine(<<TargetTok, SpaceTok, MzTok>>)
    \o HeaderLine(<<CodeTok>>)
    \o <<SpaceTok, EndCommentTok, NewlineTok>>

\* createPluginHeader(description, author): the opener, the target line,
\* the description line, the author and help lines, the closer.
createPluginHeader(description) ==
    <<CommentTok, NewlineTok>>
    \o HeaderLine(<<TargetTok, SpaceTok, MzTok>>)
    \o HeaderLine(<<[CodeTok EXCEPT !.desc = description]>>)
    \o HeaderLine(<<CodeTok>>)
    \o <<SpaceTok, EndCommentTok, NewlineTok>>

\* install_plugin: the header and a newline are prepended when no header
\* is detected.
FinalCode(code, description) ==
    IF HasHeader(code) THEN code
    ELSE createPluginHeader(description) \o <<NewlineTok>> \o code

\* pluginsJsContent.match(/\$plugins\s*=\s*(\[[\s\S]*\]);?/): the first
\* assignment head that is followed by "[" and some later "]"; the match is
\* greedy and runs to the last "]" of the text, and takes a ";" after it.
Match(text) ==
    LET closes == {j \in 1..Len(text) : text[j].k = "close"}
        heads == {i \in 1..(Len(text) - 2) :
                     /\ text[i].k = "assign" /\ text[i + 1].k = "open"
                     /\ \E j \in closes : j > i + 1}
    IN IF heads = {} THEN [found |-> FALSE, from |-> 0, close |-> 0, to |-> 0]
       ELSE LET i == CHOOSE h \in heads : \A g \in heads : h <= g
                j == CHOOSE c \in closes : \A d \in closes : d <= c
            IN [found |-> TRUE, from |-> i, close |-> j,
                to |-> IF j < Len(text) /\ text[j + 1].k = "semi"
                       THEN j + 1 ELSE j]

\* JSON.parse(match[1]) of the captured group text[from + 1 .. close]: it
\* yields the entries when the group is "[" entries "]", and throws
\* otherwise.
ParseArray(group) ==
    IF \A i \in 2..(Len(group) - 1) : group[i].k = "entry"
    THEN [ok |-> TRUE, val |-> SubSeq(group, 2, Len(group) - 1)]
    ELSE [ok |-> FALSE, val |-> <<>>]

\* install_plugin, reading the registry: the entries and whether the read
\* or the parse has thrown.  A throw is caught and the registry taken as
\* empty; so is a text without a match.
RegisteredPlugins(fsys) ==
    IF fsys[RegistryFile].st = "absent" THEN [threw |-> TRUE, val |-> <<>>]
    ELSE IF fsys[RegistryFile].st = "torn" THEN [threw |-> FALSE, val |-> <<>>]
    ELSE LET text == fsys[RegistryFile].val
             m == Match(text)
         IN IF ~m.found THEN [threw |-> FALSE, val |-> <<>>]
            ELSE LET a == ParseArray(SubSeq(text, m.from + 1, m.close))
                 IN [threw |-> ~a.ok, val |-> a.val]

\* install_plugin: pluginEntry = { name: filename, status: true,
\* description, parameters: {} }.
PluginEntry(filename, description) ==
    [k |-> "entry", name |-> filename, desc |-> description]

\* install_plugin: the entry replaces the first entry of that name, or is
\* pushed.
Register(plugins, entry) ==
    LET same == {i \in 1..Len(plugins) : plugins[i].name = entry.name}
    IN IF same = {} THEN Append(plugins, entry)
       ELSE [plugins EXCEPT ![CHOOSE i \in same : \A j \in same : i <= j]
                               = entry]

\* Faulty variant of the order of install_plugin: the registry is updated
\* before the script is written.
InstallRegistryFirst == <<"registry", "plugin">>

\* install_plugin: writePlugin, then the registry update.
InstallPlan == <<"plugin", "registry">>

\* ------------------------------------------------ SafeWriter (section 4)
\* The registry script that holds nothing but the assignment.
FreshRegistry(plugins) ==
    <<AssignTok, OpenTok>> \o plugins \o <<CloseTok, SemiTok>>

\* Faulty variant of the registry update: the whole script is generated
\* anew.
UpdateRegistryRegenerates(fsys, plugins) == FreshRegistry(plugins)

\* updatePluginsRegistry: "locating the array literal, replacing it, and
\* rewriting the container file"; the text around the located assignment
\* is kept.  With no registry script, or none with an assignment, the
\* script is written anew.
UpdateRegistryText(fsys, plugins) ==
    IF fsys[RegistryFile].st # "ok" THEN FreshRegistry(plugins)
    ELSE LET text == fsys[RegistryFile].val
             m == Match(text)
         IN IF ~m.found THEN FreshRegistry(plugins)
            ELSE SubSeq(text, 1, m.from - 1)
                 \o <<AssignTok, OpenTok>> \o plugins \o <<CloseTok>>
                 \o SubSeq(text, m.close + 1, Len(text))

\* Faulty variant of the version bump: the counter is written back as read.
BumpVersionStalls(system) == system

\* The version bump: "increment by 1" of the system file's version counter.
BumpVersion(system) == [system EXCEPT !.versionId = system.versionId + 1]

\* Map creation: the descriptor is appended to the shared map index.
AppendMapInfo(mapInfos, mapInfo) == Append(mapInfos, mapInfo)

\* Faulty variant of writeMap: the index is appended before the body is
\* written.
WriteMapIndexFirst == <<"index", "body", "version">>

\* writeMap: "write the map body first, then append to the index, then bump
\* the version".
WriteMapPlan == <<"body", "index", "version">>

\* writeToDatabase: after the primary write, bump the version.
WriteToDatabasePlan == <<"version">>

\* ------------------------------------------------------------ the state
\* The version counter of the system file when the server starts.
InitVersion == 7

Item1 == createDefaultItem(1, "a")

Item2 == createDefaultItem(2, "a")

InitCollections == {<<Null>>, <<Null, Item1, Null>>, <<Null, Null, Item2>>}

Map1 == [present |-> TRUE, id |-> 1, name |-> "a", order |-> 1]

InitMapInfos == {<<Null>>, <<Null, Map1>>}

\* A request slot that runs nothing.  n numbers the request; op, file, arg
\* and name are the tool and its arguments; pc is where the handler stands;
\* plan lists the writes SafeWriter still has to start; phase, target and
\* payload describe the write under way.  The other fields record what has
\* happened to the request so far: data is the content of its primary
\* write and replaced the content that write replaced; readFailed tells
\* that a read of the request has thrown.
Idle ==
    [n |-> 0, op |-> "idle", pc |-> "idle", plan |-> <<>>, phase |-> "none",
     file |-> "none", target |-> "none", payload |-> Absent, arg |-> 0,
     name |-> "", entry |-> Null, code |-> <<>>, newId |-> 0, readLen |-> 0,
     readFailed |-> FALSE,
     existed |-> FALSE, pre |-> Absent, data |-> Absent,
     replaced |-> Absent, bakDenied |-> FALSE,
     openDenied |-> FALSE, primFailed |-> FALSE, bodyWrote |-> FALSE,
     wrote |-> FALSE, bumped |-> FALSE, result |-> ErrorResult]

InFlight(r) == r.pc # "idle"

Init ==
    /\ \E items \in InitCollections, mapInfos \in InitMapInfos :
         fs = [f \in Files |->
                 CASE f = "Items" -> Json(items)
                   [] f = "States" -> Json(<<Null, Item1>>)
                   [] f = MapInfosFile -> Json(mapInfos)
                   [] f = SystemFile -> Json([versionId |-> InitVersion])
                   [] f = MapFilename(1) ->
                        IF Len(mapInfos) > 1 THEN Json(MapData("a")) ELSE Absent
                   [] OTHER -> Absent]
    /\ bak = [f \in Files |-> Absent]
    /\ req = [p \in Slots |-> Idle]
    /\ client \in {"seq", "burst"}
    /\ ops = 0
    /\ killed = FALSE
    /\ enginePath = EngineRoot
    /\ log = [overlapped |-> FALSE, succ |-> 0, created |-> <<>>,
              mapFailed |-> FALSE, killWin |-> {},
              lag |-> [n |-> 0, version |-> 0], last |-> Idle]

\* A request arrives at a free slot and its handler starts.  The handler
\* runs without suspension from its first read to the next await, so the
\* arrival and the first read are one step.  The client either waits for
\* each response before it sends the next request (part_003), or writes a
\* burst of requests, one per slot, without waiting (part_004).
Accept(p) ==
    /\ req[p].pc = "idle"
    /\ \A q \in Slots : q < p => req[q].pc # "idle"
    /\ IF client = "seq" THEN p = 1 /\ ops < MaxOps
       ELSE ops < Cardinality(Slots)
    /\ ops' = ops + 1
    /\ UNCHANGED <<fs, bak, client, enginePath, killed>>

\* A read of the request has thrown.
ReadFailed(r) == [r EXCEPT !.readFailed = TRUE]

\* The request a handler starts with.
Request(op, file, arg, name) ==
    [Idle EXCEPT !.n = ops + 1, !.op = op, !.file = file, !.arg = arg,
                 !.name = name]

Overlap(p) == log.overlapped \/ \E q \in Slots : q # p /\ InFlight(req[q])

\* The handler goes on: `r` is its slot after the step.
Continue(p, r) ==
    /\ req' = [req EXCEPT ![p] = r]
    /\ log' = [log EXCEPT !.overlapped = Overlap(p), !.killWin = {}]

\* The handler returns `how`; `r` is its slot at that moment.  The slot is
\* free again, and the finished request is kept for the properties.
Return(p, r, how) ==
    /\ req' = [req EXCEPT ![p] = Idle]
    /\ log' = [log EXCEPT
                 !.overlapped = Overlap(p),
                 !.killWin = {},
                 !.succ = IF how.isError THEN @ ELSE @ + 1,
                 !.created = IF r.op = "create" /\ ~how.isError
                             THEN Append(@, [file |-> r.file, id |-> how.id])
                             ELSE @,
                 !.mapFailed = @ \/ (r.op = "createMap" /\ how.isError),
                 !.last = [r EXCEPT !.pc = "done", !.result = how]]

\* The writes whose target may not be there yet: the body file of a new map,
\* a plugin script, and the plugin registry (whose read failure the handler
\* swallows).
NewTargetPhases == {"body", "plugin", "registry"}

\* SafeWriter starts the write of `content` to `f`.  Files are never
\* deleted, so the existence check of a target the operation has just read
\* finds it there whenever it runs; only the targets that may not be there
\* yet need the check as a step of their own.
BeginWrite(r, phase, f, content) ==
    [r EXCEPT !.pc = IF phase \in NewTargetPhases THEN "exists" ELSE "backup",
              !.existed = (phase \notin NewTargetPhases),
              !.phase = phase, !.target = f, !.payload = Json(content),
              !.data = IF phase \in {"primary", "index"} THEN Json(content)
                       ELSE @]

\* SafeWriter goes on to the next write of its plan, or returns to the
\* handler, which reports success.
Proceed(p, r) ==
    IF r.plan = <<>> THEN Return(p, r, OkResult(r.newId))
    ELSE LET rest == [r EXCEPT !.plan = Tail(r.plan)] IN
         CASE Head(r.plan) = "body" ->
                Continue(p, BeginWrite(rest, "body", MapFilename(r.newId),
                                       MapData(r.name)))
           [] Head(r.plan) = "index" -> Continue(p, [rest EXCEPT !.pc = "iread"])
           [] Head(r.plan) = "version" -> Continue(p, [rest EXCEPT !.pc = "vread"])
           [] Head(r.plan) = "plugin" ->
                Continue(p, BeginWrite(rest, "plugin", PluginFilename(r.name),
                                       r.code))
           [] Head(r.plan) = "registry" -> Continue(p, [rest EXCEPT !.pc = "rread"])

\* create_item: read the collection, build the record, push it.
StartCreate(p) ==
    \E c \in Collections :
        /\ fs[c].st = "ok" => Len(fs[c].val) < MaxLen
        /\ Accept(p)
        /\ LET me == [Request("create", c, 0, "b") EXCEPT
                         !.plan = WriteToDatabasePlan]
               r == ReadJson(fs, c)
           IN IF ~r.ok THEN Return(p, ReadFailed(me), ErrorResult)
              ELSE LET newId == NewId(r.val)
                       items == Push(r.val, createDefaultItem(newId, me.name))
                   IN Continue(p, BeginWrite(
                         [me EXCEPT !.newId = newId, !.readLen = Len(r.val)],
                         "primary", c, items))

\* update_item: read the collection, reject a missing id, assign the fields.
StartUpdate(p) ==
    \E id \in 1..2, name \in {"b", Undefined} :
        /\ Accept(p)
        /\ LET me == [Request("update", "Items", id, name) EXCEPT
                         !.plan = WriteToDatabasePlan]
               r == ReadJson(fs, me.file)
           IN IF ~r.ok THEN Return(p, ReadFailed(me), ErrorResult)
              ELSE IF UpdateRejected(r.val, id)
              THEN Return(p, [me EXCEPT !.readLen = Len(r.val)], ErrorResult)
              ELSE Continue(p, BeginWrite([me EXCEPT !.readLen = Len(r.val)],
                                          "primary", me.file,
                                          ApplyUpdate(r.val, id, name)))

\* set_database_limit: read the collection, expand or shrink it in memory.
StartLimit(p) ==
    \E limit \in 1..(MaxLen - 1) :
        /\ Accept(p)
        /\ LET me == [Request("limit", "Items", limit, "") EXCEPT
                         !.plan = WriteToDatabasePlan]
               r == ReadJson(fs, me.file)
           IN IF ~r.ok THEN Return(p, ReadFailed(me), ErrorResult)
              ELSE LET z == Resize(r.val, limit) IN
                   IF ~z.ok
                   THEN Return(p, [me EXCEPT !.readLen = Len(r.val)],
                               ErrorResult)
                   ELSE Continue(p, BeginWrite(
                           [me EXCEPT !.readLen = Len(r.val)],
                           "primary", me.file, z.data))

\* create_map: read the index, choose the id and the order, build the body
\* and the descriptor, and hand both to SafeWriter.writeMap.
CreateMap(p) ==
    /\ Accept(p)
    /\ LET me == Request("createMap", MapInfosFile, 0, "b")
           r == ReadJson(fs, MapInfosFile)
       IN IF ~r.ok THEN Return(p, ReadFailed(me), ErrorResult)
          ELSE LET mapInfo == MapInfo(r.val, me.name) IN
               Proceed(p, [me EXCEPT !.newId = mapInfo.id, !.entry = mapInfo,
                                     !.readLen = Len(r.val),
                                     !.plan = WriteMapPlan])

\* create_map, accepted while the id it is going to choose is within bounds.
StartCreateMap(p) ==
    /\ fs[MapInfosFile].st = "ok" =>
          NextMapId(fs[MapInfosFile].val) <= MaxMapId
    /\ CreateMap(p)

\* update_map: fileHandler.exists on the body file; a missing one is rejected.
StartUpdateMap(p) ==
    \E id \in 1..MaxMapId, name \in {"b", Undefined} :
        /\ Accept(p)
        /\ LET me == [Request("updateMap", MapFilename(id), id, name) EXCEPT
                         !.pc = "read", !.plan = WriteToDatabasePlan]
           IN IF Exists(fs, MapFilename(id)) THEN Continue(p, me)
              ELSE Return(p, me, ErrorResult)

\* update_map: read the body, assign the fields.
ReadUpdateMap(p) ==
    /\ req[p].op = "updateMap" /\ req[p].pc = "read"
    /\ LET r == ReadJson(fs, req[p].file) IN
       IF ~r.ok THEN Return(p, ReadFailed(req[p]), ErrorResult)
       ELSE Continue(p, BeginWrite(req[p], "primary", req[p].file,
                                   ApplyMapUpdate(r.val, req[p].name)))
    /\ UNCHANGED <<fs, bak, client, enginePath, ops, killed>>

\* ------------------------------------- SafeWriter's write of one target
\* existence check: a target that is not there yet has nothing to back up.
SWExists(p) ==
    /\ req[p].pc = "exists"
    /\ LET e == Exists(fs, req[p].target) IN
       Continue(p, [req[p] EXCEPT !.existed = e,
                                  !.pc = IF e THEN "backup" ELSE "open"])
    /\ UNCHANGED <<fs, bak, client, enginePath, ops, killed>>

\* backup of the existing target; a failed copy aborts the operation.
SWBackup(p) ==
    /\ req[p].pc = "backup"
    /\ \E denied \in BOOLEAN :
         LET b == Backup(fs, bak, req[p].target, denied)
             r == [req[p] EXCEPT
                     !.bakDenied = denied,
                     !.primFailed = @ \/ (denied /\ req[p].phase # "version")]
         IN /\ bak' = b.bak
            /\ IF b.ok
               THEN Continue(p, [r EXCEPT !.pc = "open"]) /\ fs' = fs
               ELSE Return(p, r, ErrorResult) /\ fs' = Catch(fs, r)
    /\ UNCHANGED <<client, enginePath, ops, killed>>

\* the write proper, first half: the target is opened, which truncates it.
SWOpen(p) ==
    /\ req[p].pc = "open"
    /\ \E denied \in BOOLEAN :
         LET w == WriteOpen(fs, req[p].target, denied)
             r == [req[p] EXCEPT
                     !.pre = fs[req[p].target],
                     !.replaced = IF req[p].phase \in {"primary", "index"}
                                  THEN fs[req[p].target] ELSE @,
                     !.openDenied = denied,
                     !.primFailed = @ \/ (denied /\ req[p].phase # "version")]
         IN IF ~w.ok THEN Return(p, r, ErrorResult) /\ fs' = Catch(w.fs, r)
            ELSE IF w.opened
            THEN Continue(p, [r EXCEPT !.pc = "flush"]) /\ fs' = w.fs
            ELSE Proceed(p, r) /\ fs' = w.fs
    /\ UNCHANGED <<bak, client, enginePath, ops, killed>>

\* the write proper, second half: the content is written and the file
\* closed; SafeWriter goes on with its plan.
SWFlush(p) ==
    /\ req[p].pc = "flush"
    /\ fs' = WriteFlush(fs, req[p].target, req[p].payload.val)
    /\ Proceed(p, [req[p] EXCEPT
                     !.bodyWrote = @ \/ req[p].phase \in {"body", "plugin"},
                     !.wrote = @ \/ req[p].phase \in {"primary", "index",
                                                       "registry"},
                     !.bumped = @ \/ req[p].phase = "version"])
    /\ UNCHANGED <<bak, client, enginePath, ops, killed>>

\* writeMap, the index append: read the index and append the descriptor.
IndexRead(p) ==
    /\ req[p].pc = "iread"
    /\ LET r == ReadJson(fs, MapInfosFile) IN
       IF ~r.ok THEN /\ Return(p, ReadFailed(req[p]), ErrorResult)
                     /\ fs' = Catch(fs, req[p])
       ELSE /\ Continue(p, BeginWrite(req[p], "index", MapInfosFile,
                                      AppendMapInfo(r.val, req[p].entry)))
            /\ fs' = fs
    /\ UNCHANGED <<bak, client, enginePath, ops, killed>>

\* the version bump: read the system file, increment, write it back.
VersionRead(p) ==
    /\ req[p].pc = "vread"
    /\ LET r == ReadJson(fs, SystemFile) IN
       IF ~r.ok THEN /\ Return(p, ReadFailed(req[p]), ErrorResult)
                     /\ fs' = Catch(fs, req[p])
       ELSE /\ Continue(p, BeginWrite(req[p], "version", SystemFile,
                                      BumpVersion(r.val)))
            /\ fs' = fs
    /\ UNCHANGED <<bak, client, enginePath, ops, killed>>

\* What a kill leaves behind of a write that had backed its target up and
\* had not completed: the content before the write, the content it was
\* writing, and the content a reader finds afterwards.
KillWindow(r) ==
    [file |-> r.target,
     pre |-> IF r.pc = "open" THEN fs[r.target] ELSE r.pre,
     post |-> r.payload,
     seen |-> fs[r.target]]

\* The request has written its data and has not yet opened the system file
\* for the version write.
LagWindow(r) ==
    /\ r.wrote
    /\ r.pc = "vread" \/ (r.phase = "version" /\ r.pc \in {"backup", "open"})

\* The server process is killed: every handler in flight is gone, the files
\* stay as they are.  The client starts a fresh process afterwards.
Kill ==
    /\ ~killed
    /\ \E p \in Slots : InFlight(req[p])
    /\ killed' = TRUE
    /\ log' = [log EXCEPT
                 !.killWin =
                    {KillWindow(req[p]) :
                       p \in {q \in Slots : req[q].existed
                                            /\ req[q].pc \in {"open", "flush"}}},
                 !.lag = IF \E p \in Slots : LagWindow(req[p])
                         THEN [n |-> ops,
                               version |-> IF fs[SystemFile].st = "ok"
                                           THEN fs[SystemFile].val.versionId
                                           ELSE 0]
                         ELSE @]
    /\ req' = [p \in Slots |-> Idle]
    /\ UNCHANGED <<fs, bak, client, enginePath, ops>>

Next ==
    \/ \E p \in Slots :
          \/ StartCreate(p)
          \/ StartUpdate(p)
          \/ StartLimit(p)
          \/ StartCreateMap(p)
          \/ StartUpdateMap(p)
          \/ ReadUpdateMap(p)
          \/ SWExists(p)
          \/ SWBackup(p)
          \/ SWOpen(p)
          \/ SWFlush(p)
          \/ IndexRead(p)
          \/ VersionRead(p)
    \/ Kill

Spec == Init /\ [][Next]_vars

\* ------------------------------------------- create_map on any map index
\* Longest map index create_map is run on, and largest order in it.
MaxIndexLen == 5
MaxOrderIn == 2

\* The map indexes: entry 0 is null, every other entry is null or a
\* descriptor whose id is its position.
MapIndexes ==
    UNION {{[i \in 1..n |->
               IF i = 1 \/ c[i] = 0 THEN Null
               ELSE [present |-> TRUE, id |-> i - 1, name |-> "a",
                     order |-> c[i]]] :
             c \in [1..n -> 0..MaxOrderIn]} : n \in 1..MaxIndexLen}

MapIdInit ==
    /\ \E mapInfos \in MapIndexes :
         fs = [f \in Files |->
                 CASE f = MapInfosFile -> Json(mapInfos)
                   [] f = SystemFile -> Json([versionId |-> InitVersion])
                   [] f \in MapFiles ->
                        IF \E i \in 2..Len(mapInfos) :
                              ~IsNull(mapInfos[i]) /\ MapFilename(i - 1) = f
                        THEN Json(MapData("a")) ELSE Absent
                   [] OTHER -> Json(<<Null>>)]
    /\ bak = [f \in Files |-> Absent]
    /\ req = [p \in Slots |-> Idle]
    /\ client = "seq"
    /\ ops = 0
    /\ killed = FALSE
    /\ enginePath = EngineRoot
    /\ log = [overlapped |-> FALSE, succ |-> 0, created |-> <<>>,
              mapFailed |-> FALSE, killWin |-> {},
              lag |-> [n |-> 0, version |-> 0], last |-> Idle]

\* One create_map request, up to the call of SafeWriter.writeMap.
MapIdNext == CreateMap(1)

MapIdSpec == MapIdInit /\ [][MapIdNext]_vars

\* ------------------------------------------------------- install_plugin
\* The description an install request carries, and the one of the entries
\* that are registered at the start.
NewDescription == "new"
OldDescription == "old"

\* The code an install request supplies: without and with a header.
Codes == {<<CodeTok>>, createPluginHeader(OldDescription) \o <<CodeTok>>}

\* The registry scripts at the start: text, the assignment with up to two
\* entries, an optional semicolon, and text after it, which may hold
\* brackets of its own.  One script has no assignment.
RegistryTexts ==
    {pre \o <<AssignTok, OpenTok>> \o es \o <<CloseTok>> \o semi \o post :
        pre \in {<<>>, <<CodeTok>>},
        es \in {<<>>, <<PluginEntry("A", OldDescription)>>,
                <<PluginEntry("B", OldDescription)>>,
                <<PluginEntry("A", OldDescription),
                  PluginEntry("B", OldDescription)>>,
                <<PluginEntry("B", OldDescription),
                  PluginEntry("A", OldDescription)>>},
        semi \in {<<>>, <<SemiTok>>},
        post \in {<<>>, <<CodeTok>>, <<CodeTok, OpenTok, CloseTok>>}}
    \cup {<<CodeTok>>}

PluginInit ==
    /\ \E registry \in {Json(t) : t \in RegistryTexts} \cup {Absent},
          script \in {Absent,
                     Json(createPluginHeader(OldDescription) \o <<CodeTok>>)} :
         fs = [f \in PluginFiles |->
                 CASE f = RegistryFile -> registry
                   [] f = PluginFilename("A") -> script
                   [] OTHER -> Absent]
    /\ bak = [f \in PluginFiles |-> Absent]
    /\ req = [p \in Slots |-> Idle]
    /\ client = "seq"
    /\ ops = 0
    /\ killed = FALSE
    /\ enginePath = EngineRoot
    /\ log = [overlapped |-> FALSE, succ |-> 0, created |-> <<>>,
              mapFailed |-> FALSE, killWin |-> {},
              lag |-> [n |-> 0, version |-> 0], last |-> Idle]

\* install_plugin: the header check, then the call of writePlugin.
StartInstall(p) ==
    \E filename \in PluginNames, code \in Codes :
        /\ Accept(p)
        /\ Proceed(p, [Request("install", RegistryFile, 0, filename) EXCEPT
                          !.code = FinalCode(code, NewDescription),
                          !.replaced = fs[RegistryFile],
                          !.plan = InstallPlan])

\* install_plugin: the registry is read, the entry replaced or pushed, and
\* the entries handed to updatePluginsRegistry.
RegistryRead(p) ==
    /\ req[p].pc = "rread"
    /\ LET r == RegisteredPlugins(fs)
           plugins == Register(r.val, PluginEntry(req[p].name, NewDescription))
       IN Continue(p, BeginWrite(
             [req[p] EXCEPT !.readFailed = r.threw],
             "registry", RegistryFile, UpdateRegistryText(fs, plugins)))
    /\ UNCHANGED <<fs, bak, client, enginePath, ops, killed>>

PluginNext ==
    \/ StartInstall(1)
    \/ RegistryRead(1)
    \/ SWExists(1)
    \/ SWBackup(1)
    \/ SWOpen(1)
    \/ SWFlush(1)

PluginSpec == PluginInit /\ [][PluginNext]_vars

\* ------------------------------------------- resource tools (engine root)
\* The directories the resource tools list: the project's category folder
\* and the folders under the engine root.
ProjectDir == "project"
EngineDirs == {"newdata", "dlc", "generator", "samplemaps", "corescript"}
ResourceDirs == EngineDirs \cup {ProjectDir}

\* Directory entries: a name, whether it is a directory, whether the name
\* passes the name filter of the tool that lists it (no leading dot, the
\* "Map"/".json" or "v" pattern, the extension), and for a generator
\* category the number of .png parts under it.
DirEntries ==
    {[name |-> "pkg", isDirectory |-> TRUE, matches |-> TRUE, parts |-> 1],
     [name |-> ".cache", isDirectory |-> TRUE, matches |-> FALSE, parts |-> 0],
     [name |-> "Map001.json", isDirectory |-> FALSE, matches |-> TRUE,
      parts |-> 0]}

\* A directory is absent (readdir throws) or holds some entries.
DirContents == {Absent} \cup {Json(es) : es \in SUBSET DirEntries}

\* resourceTools.ts: the requests of scan_resources.
Sources == {"project", "engine", "all"}

\* fs.readdir followed by the filters of the tool: the names of the entries
\* of the wanted kind whose name passes.  It throws when the directory is
\* absent.
ReadDir(fsys, d, isDirectory) ==
    IF fsys[d].st # "ok" THEN [ok |-> FALSE, val |-> {}]
    ELSE [ok |-> TRUE,
          val |-> {e.name : e \in {x \in fsys[d].val :
                                     /\ x.isDirectory = isDirectory
                                     /\ x.matches}}]

\* FileHandler.listFiles: a directory that cannot be read lists as empty.
ListFiles(fsys, d) == ReadDir(fsys, d, FALSE).val

\* FileHandler.getEnginePath, as the tools test it: `if (!enginePath)`.
EngineConfigured(root) == root # Undefined

\* The result of a resource tool: the listing it reports, the failure flag,
\* and whether a directory read has thrown.
ResourceOk(listing) ==
    [result |-> OkResult(0), data |-> Json(listing), readFailed |-> FALSE]
ResourceError(threw) ==
    [result |-> ErrorResult, data |-> Absent, readFailed |-> threw]

\* scan_resources: the project listing and, when an engine root is
\* configured, the listing of its newdata folder; a failed engine read
\* lists as empty.
scan_resources(fsys, root, source) ==
    ResourceOk(
      [project |-> IF source \in {"project", "all"}
                   THEN ListFiles(fsys, ProjectDir) ELSE {},
       engine |-> IF source \in {"engine", "all"} /\ EngineConfigured(root)
                  THEN ReadDir(fsys, "newdata", FALSE).val ELSE {}])

\* scan_dlc_packages, get_sample_maps and get_core_script_versions: without
\* an engine root the tool returns an error result; otherwise it lists the
\* folder, and a failed read is caught and returned as an error result.
EngineScan(fsys, root, d, isDirectory) ==
    IF ~EngineConfigured(root) THEN ResourceError(FALSE)
    ELSE LET r == ReadDir(fsys, d, isDirectory) IN
         IF ~r.ok THEN ResourceError(TRUE) ELSE ResourceOk(r.val)

\* get_generator_parts: the same, with the number of parts per category.
get_generator_parts(fsys, root) ==
    IF ~EngineConfigured(root) THEN ResourceError(FALSE)
    ELSE IF fsys["generator"].st # "ok" THEN ResourceError(TRUE)
    ELSE ResourceOk({<<e.name, e.parts>> :
                       e \in {x \in fsys["generator"].val : x.isDirectory}})

\* The tools that work on the engine root only.
EngineOps == {"scan_dlc_packages", "get_generator_parts", "get_sample_maps",
              "get_core_script_versions"}

ResourceInit ==
    /\ enginePath \in {Undefined, EngineRoot}
    /\ \E project \in DirContents, engine \in DirContents :
         fs = [d \in ResourceDirs |->
                 IF d = ProjectDir THEN project
                 ELSE IF enginePath = Undefined THEN Absent ELSE engine]
    /\ bak = [d \in ResourceDirs |-> Absent]
    /\ req = [p \in Slots |-> Idle]
    /\ client = "seq"
    /\ ops = 0
    /\ killed = FALSE
    /\ log = [overlapped |-> FALSE, succ |-> 0, created |-> <<>>,
              mapFailed |-> FALSE, killWin |-> {},
              lag |-> [n |-> 0, version |-> 0], last |-> Idle]

\* A resource tool runs: it reads and returns, and writes nothing.
Respond(p, op, source, out) ==
    /\ Accept(p)
    /\ Return(p, [Request(op, "none", 0, source) EXCEPT
                     !.data = out.data, !.readFailed = out.readFailed],
              out.result)

ScanResources(p) ==
    \E source \in Sources :
        Respond(p, "scan_resources", source,
                scan_resources(fs, enginePath, source))

ScanDlcPackages(p) ==
    Respond(p, "scan_dlc_packages", "",
            EngineScan(fs, enginePath, "dlc", TRUE))

GetGeneratorParts(p) ==
    Respond(p, "get_generator_parts", "",
            get_generator_parts(fs, enginePath))

GetSampleMaps(p) ==
    Respond(p, "get_sample_maps", "",
            EngineScan(fs, enginePath, "samplemaps", FALSE))

GetCoreScriptVersions(p) ==
    Respond(p, "get_core_script_versions", "",
            EngineScan(fs, enginePath, "corescript", TRUE))

ResourceNext ==
    \/ ScanResources(1)
    \/ ScanDlcPackages(1)
    \/ GetGeneratorParts(1)
    \/ GetSampleMaps(1)
    \/ GetCoreScriptVersions(1)

ResourceSpec == ResourceInit /\ [][ResourceNext]_vars

\* ------------------------------------------- create_item: the effects
\* types.ts: the effect codes create_item uses.
EffectCode == [RecoverHP |-> 11, RecoverMP |-> 12, AddState |-> 21]

\* A number that is a quotient: `num / den`.
Frac(num, den) == [num |-> num, den |-> den]

\* RPGEffect.
Effect(code, dataId, value1, value2) ==
    [code |-> code, dataId |-> dataId, value1 |-> value1, value2 |-> value2]

\* Faulty variant of the effects list: the state effect is pushed first.
EffectsStateFirst(args) ==
    (IF args.addStateId > 0
     THEN <<Effect(EffectCode.AddState, args.addStateId, Frac(1, 1), 0)>>
     ELSE <<>>)
    \o (IF args.hpRecoveryPercent > 0 \/ args.hpRecoveryFixed > 0
        THEN <<Effect(EffectCode.RecoverHP, 0,
                      Frac(args.hpRecoveryPercent, 100), args.hpRecoveryFixed)>>
        ELSE <<>>)
    \o (IF args.mpRecoveryPercent > 0 \/ args.mpRecoveryFixed > 0
        THEN <<Effect(EffectCode.RecoverMP, 0,
                      Frac(args.mpRecoveryPercent, 100), args.mpRecoveryFixed)>>
        ELSE <<>>)

\* create_item: the three conditional pushes onto newItem.effects, which
\* createDefaultItem has left empty.
Effects(args) ==
    (IF args.hpRecoveryPercent > 0 \/ args.hpRecoveryFixed > 0
     THEN <<Effect(EffectCode.RecoverHP, 0,
                   Frac(args.hpRecoveryPercent, 100), args.hpRecoveryFixed)>>
     ELSE <<>>)
    \o (IF args.mpRecoveryPercent > 0 \/ args.mpRecoveryFixed > 0
        THEN <<Effect(EffectCode.RecoverMP, 0,
                      Frac(args.mpRecoveryPercent, 100), args.mpRecoveryFixed)>>
        ELSE <<>>)
    \o (IF args.addStateId > 0
        THEN <<Effect(EffectCode.AddState, args.addStateId, Frac(1, 1), 0)>>
        ELSE <<>>)

\* The record create_item builds: the default item, the assigned fields,
\* and the effects.
NewItem(id, args) ==
    [present |-> TRUE, id |-> id, name |-> args.name, order |-> 0,
     effects |-> Effects(args)]

\* The arguments of the create_item requests: every recovery amount is
\* absent (the schema's default 0) or given, and so is the state.
ItemArgs ==
    [name : {"b"}, hpRecoveryPercent : {0, 50}, hpRecoveryFixed : {0, 10},
     mpRecoveryPercent : {0, 25}, mpRecoveryFixed : {0, 5},
     addStateId : {0, 7}]

EffectsInit ==
    /\ \E items \in {<<Null>>, <<Null, Item1, Null>>} :
         fs = [f \in Files |->
                 CASE f = "Items" -> Json(items)
                   [] f = SystemFile -> Json([versionId |-> InitVersion])
                   [] OTHER -> Absent]
    /\ bak = [f \in Files |-> Absent]
    /\ req = [p \in Slots |-> Idle]
    /\ client = "seq"
    /\ ops = 0
    /\ killed = FALSE
    /\ enginePath = EngineRoot
    /\ log = [overlapped |-> FALSE, succ |-> 0, created |-> <<>>,
              mapFailed |-> FALSE, killWin |-> {},
              lag |-> [n |-> 0, version |-> 0], last |-> Idle]

\* Requests the client sends in a run of create_item with effects.
MaxItemCreates == 1

\* create_item with its recovery and state arguments: read the collection,
\* build the record with its effects, push it, and call writeToDatabase.
StartCreateItem(p) ==
    \E args \in ItemArgs :
        /\ ops < MaxItemCreates
        /\ Accept(p)
        /\ LET me == [Request("create", "Items", args, args.name) EXCEPT
                         !.plan = WriteToDatabasePlan]
               r == ReadJson(fs, "Items")
           IN IF ~r.ok THEN Return(p, ReadFailed(me), ErrorResult)
              ELSE LET newId == NewId(r.val)
                       items == Push(r.val, NewItem(newId, args))
                   IN Continue(p, BeginWrite(
                         [me EXCEPT !.newId = newId, !.readLen = Len(r.val)],
                         "primary", "Items", items))

EffectsNext ==
    \/ StartCreateItem(1)
    \/ SWBackup(1)
    \/ SWOpen(1)
    \/ SWFlush(1)
    \/ VersionRead(1)

EffectsSpec == EffectsInit /\ [][EffectsNext]_vars

\* ------------------------------------- install_plugin: the header check
\* Longest code a header check is run on, and the number of times the
\* outcome of a check is supplied again.
MaxCodeLen == 5
MaxInstalls == 2

\* The pieces the supplied code is made of.
CodeToks == {CommentTok, SpaceTok, StarTok, TargetTok, MzTok, CodeTok}

\* Sequences of at most `n` pieces.
RECURSIVE SeqsUpTo(_)
SeqsUpTo(n) ==
    IF n = 0 THEN {<<>>}
    ELSE LET shorter == SeqsUpTo(n - 1) IN
         shorter \cup {Append(c, t) : c \in shorter, t \in CodeToks}

\* The code a client supplies: any short sequence of pieces, and the plugins
\* that carry a header like the one install_plugin writes.
SuppliedCodes ==
    SeqsUpTo(MaxCodeLen)
    \cup {createPluginHeader(OldDescription) \o c : c \in SeqsUpTo(2)}

\* The client holds the code it is about to supply.
HeaderInit ==
    /\ \E code \in SuppliedCodes :
         req = [p \in Slots |-> IF p = 1 THEN [Idle EXCEPT !.code = code]
                                ELSE Idle]
    /\ fs = [f \in PluginFiles |-> Absent]
    /\ bak = [f \in PluginFiles |-> Absent]
    /\ client = "seq"
    /\ ops = 0
    /\ killed = FALSE
    /\ enginePath = EngineRoot
    /\ log = [overlapped |-> FALSE, succ |-> 0, created |-> <<>>,
              mapFailed |-> FALSE, killWin |-> {},
              lag |-> [n |-> 0, version |-> 0], last |-> Idle]

\* install_plugin up to the call of writePlugin: finalCode is the code with
\* a header.  The client supplies the outcome as the code of its next
\* request.
HeaderCheck(p) ==
    \E description \in {NewDescription, OldDescription} :
        /\ ops < MaxInstalls
        /\ ops' = ops + 1
        /\ req' = [req EXCEPT ![p].code = FinalCode(@, description)]
        /\ UNCHANGED <<fs, bak, client, enginePath, killed, log>>

HeaderNext == HeaderCheck(1)

HeaderSpec == HeaderInit /\ [][HeaderNext]_vars

\* ------------------------------------------------------------ properties
\* The slot `p` takes the step: its handler moves, and the step is no kill.
Steps(p) == req[p].pc # "idle" /\ req'[p].pc # req[p].pc /\ killed' = killed

\* The request of slot `p` returns in the step; log'.last is what it leaves.
Returns(p) == Steps(p) /\ req'[p].pc = "idle" /\ log'.last.n = req[p].n

Quiescent == \A p \in Slots : ~InFlight(req[p])

\* C1: a kill at any point of a write to a target that had a previous
\* version leaves a reader with the complete previous content or the
\* complete new content of the target.
C1_KillLeavesOldOrNew ==
    \A w \in log.killWin : w.seen = w.pre \/ w.seen = w.post

\* C2: when the backup of the existing target fails, the operation returns
\* an error in that very step, no file is changed by it (neither the target
\* nor the system file), and the request has written no version bump.
C2_BackupFailureAborts ==
    [][\A p \in Slots :
         (Steps(p) /\ req[p].pc = "backup"
          /\ (req'[p].bakDenied \/ (Returns(p) /\ log'.last.bakDenied)))
         => /\ Returns(p)
            /\ log'.last.result.isError
            /\ ~log'.last.bumped
            /\ fs' = fs]_vars

C2_Witness ==
    /\ log.last.bakDenied /\ log.last.result.isError
    /\ log.last.phase = "primary" /\ log.last.existed

\* C3: when the write of a target that existed completes, the backup file
\* of the target holds the content the target had immediately before that
\* write.
C3_BackupIsPreviousContent ==
    [][\A p \in Slots :
         (Steps(p) /\ req[p].pc = "flush" /\ req[p].existed)
         => bak'[req[p].target] = req[p].pre]_vars

\* C4: the system file changes only in the version write of a request whose
\* primary write has succeeded; a request whose primary write or its backup
\* fails returns an error in that step without touching the system file.
C4_BumpOnlyAfterPrimaryWrite ==
    [][/\ fs'[SystemFile] # fs[SystemFile] =>
            \E p \in Slots : /\ Steps(p)
                             /\ req[p].phase = "version"
                             /\ req[p].wrote /\ ~req[p].primFailed
       /\ \A p \in Slots :
            (Steps(p) /\ (req'[p].primFailed
                          \/ (Returns(p) /\ log'.last.primFailed)))
            => /\ Returns(p)
               /\ log'.last.result.isError
               /\ ~log'.last.bumped
               /\ fs'[SystemFile] = fs[SystemFile]]_vars

C4_Witness ==
    /\ log.last.primFailed /\ log.last.openDenied
    /\ log.last.result.isError
    /\ fs[SystemFile] = Json([versionId |-> InitVersion])

\* C5: after N successful mutating operations run one after the other, the
\* version counter is the initial one plus N.
C5_VersionCountsSuccesses ==
    (Quiescent /\ ~log.overlapped /\ ~killed)
    => /\ fs[SystemFile].st = "ok"
       /\ fs[SystemFile].val.versionId = InitVersion + log.succ

C5_Witness ==
    /\ Quiescent /\ ~log.overlapped /\ ~killed
    /\ log.succ = 2
    /\ fs[SystemFile] = Json([versionId |-> InitVersion + 2])

\* C6: a create assigns the length the collection had before the append;
\* the collection it writes is one longer and holds at that index a record
\* whose id field is the id; the id it reports is that id.
C6_CreatedId(r) ==
    /\ r.newId = r.readLen
    /\ Len(r.payload.val) = r.readLen + 1
    /\ r.payload.val[r.newId + 1].present
    /\ r.payload.val[r.newId + 1].id = r.newId

C6_CreateAssignsLength ==
    [][\A p \in Slots :
         /\ (req'[p].op = "create" /\ req'[p].phase = "primary")
            => C6_CreatedId(req'[p])
         /\ (Steps(p) /\ req[p].op = "create" /\ req[p].pc = "flush"
             /\ req[p].phase = "primary")
            => fs'[req[p].file] = req[p].payload
         /\ (Returns(p) /\ req[p].op = "create"
             /\ ~log'.last.result.isError)
            => log'.last.result.id = req[p].readLen]_vars

C6_Witness ==
    /\ log.last.op = "create" /\ ~log.last.result.isError
    /\ log.last.result.id = 2 /\ log.last.readLen = 2
    /\ ~log.overlapped /\ ~killed
    /\ Len(fs[log.last.file].val) = 3
    /\ fs[log.last.file].val[3].id = 2

\* C7: a limit request whose new length is below the current one, with a
\* populated record at or beyond the new length, is rejected with the error
\* flag in the step that reads the collection, and writes nothing.
C7_ShrinksThroughData(file, limit) ==
    /\ file.st = "ok"
    /\ limit + 1 < Len(file.val)
    /\ \E i \in (limit + 2)..Len(file.val) : ~IsNull(file.val[i])

C7_Rejected(r) ==
    /\ r.pc = "done" /\ r.result.isError
    /\ fs' = fs /\ bak' = bak

C7_ShrinkRejected ==
    [][ops' = ops + 1 =>
         /\ \A p \in Slots :
              (req'[p].n = ops' /\ req'[p].op = "limit"
               /\ C7_ShrinksThroughData(fs[req'[p].file], req'[p].arg))
              => C7_Rejected(req'[p])
         /\ (log'.last.n = ops' /\ log'.last.op = "limit"
             /\ C7_ShrinksThroughData(fs[log'.last.file], log'.last.arg))
            => C7_Rejected(log'.last)]_vars

C7_Witness ==
    /\ log.last.op = "limit" /\ log.last.result.isError
    /\ C7_ShrinksThroughData(fs[log.last.file], log.last.arg)
    /\ log.last.n = ops /\ Quiescent /\ ~killed

\* C8: requests do not interleave, so the create requests of a burst on one
\* collection report distinct ids, and every reported record is in the
\* collection under its id.
C8_NoLostUpdate ==
    ~killed =>
      /\ \A i, j \in 1..Len(log.created) :
           (i < j /\ log.created[i].file = log.created[j].file)
           => log.created[i].id # log.created[j].id
      /\ Quiescent =>
           \A i \in 1..Len(log.created) :
              LET c == fs[log.created[i].file] IN
              /\ c.st = "ok"
              /\ Len(c.val) > log.created[i].id
              /\ c.val[log.created[i].id + 1].id = log.created[i].id

\* C9: map creation writes the body file, then the index, then the version:
\* the index is written only by a request whose body write is done and whose
\* body file exists, the version only by one whose index write is done.
C9_BodyThenIndexThenBump ==
    [][\A p \in Slots :
         (Steps(p) /\ req[p].op = "createMap")
         => /\ fs'[MapInfosFile] # fs[MapInfosFile]
               => /\ req[p].bodyWrote
                  /\ Exists(fs, MapFilename(req[p].newId))
            /\ fs'[SystemFile] # fs[SystemFile]
               => req[p].bodyWrote /\ req[p].wrote]_vars

C9_Witness ==
    /\ log.last.op = "createMap" /\ ~log.last.result.isError
    /\ log.last.bodyWrote /\ log.last.wrote /\ log.last.bumped
    /\ fs[MapFilename(log.last.newId)] = Json(MapData(log.last.name))
    /\ ~killed

\* C10: when the index append of a map creation fails after the body write
\* has succeeded, the failing step leaves the body file as it is, and the
\* body file is there when the operation has returned; in a run without
\* overlap it holds the content the request wrote.
C10_BodyRemains ==
    [][\A p \in Slots :
         (Returns(p) /\ req[p].op = "createMap" /\ req[p].bodyWrote
          /\ ~req[p].wrote /\ log'.last.result.isError)
         => /\ fs'[MapFilename(req[p].newId)] = fs[MapFilename(req[p].newId)]
            /\ Exists(fs', MapFilename(req[p].newId))
            /\ ~log'.overlapped
               => fs'[MapFilename(req[p].newId)]
                    = Json(MapData(req[p].name))]_vars

C10_Witness ==
    /\ log.last.op = "createMap" /\ log.last.result.isError
    /\ log.last.bodyWrote /\ ~log.last.wrote
    /\ log.last.phase = "index" /\ log.last.openDenied
    /\ ~log.overlapped /\ ~killed /\ Quiescent
    /\ fs[MapFilename(log.last.newId)] = Json(MapData(log.last.name))

\* The ids of the populated descriptors of a map index.
IndexedIds(mapInfos) ==
    {mapInfos[i].id : i \in {j \in 1..Len(mapInfos) : ~IsNull(mapInfos[j])}}

\* The ids of the map body files that are on disk.
BodyIds(fsys) == {id \in 1..Len(MapNames) : Exists(fsys, MapFilename(id))}

\* An operation boundary: no request is in flight, the process was not
\* killed, and the map index is readable.
MapBoundary == Quiescent /\ ~killed /\ fs[MapInfosFile].st = "ok"

PopulatedAt(mapInfos) ==
    {i \in 0..(Len(mapInfos) - 1) : ~IsNull(mapInfos[i + 1])}

\* The order create_map is to give: one more than every order in the index,
\* and 1 when the index has no populated descriptor.
C12_OrderIsMaxPlusOne(r, mapInfos) ==
    /\ \A i \in PopulatedAt(mapInfos) : mapInfos[i + 1].order < r.entry.order
    /\ \/ r.entry.order = 1
       \/ \E i \in PopulatedAt(mapInfos) :
             mapInfos[i + 1].order + 1 = r.entry.order

\* C12 (as stated): create_map gives the new descriptor the largest
\* populated index plus 1 as id, and the largest order plus 1 as order.
C12_IdIsLastPopulatedPlusOne ==
    \A p \in Slots :
       (req[p].op = "createMap" /\ fs[MapInfosFile].st = "ok")
       => LET mapInfos == fs[MapInfosFile].val IN
          /\ \A i \in PopulatedAt(mapInfos) : i < req[p].entry.id
          /\ \/ req[p].entry.id = 1
             \/ req[p].entry.id - 1 \in PopulatedAt(mapInfos)
          /\ C12_OrderIsMaxPlusOne(req[p], mapInfos)

\* C12 (amended): create_map gives the new descriptor the length of the
\* index as id, which is the largest populated index plus 1 exactly when
\* the last entry of the index is populated; the order is the largest order
\* plus 1.
C12_IdIsIndexLength ==
    \A p \in Slots :
       (req[p].op = "createMap" /\ fs[MapInfosFile].st = "ok")
       => LET mapInfos == fs[MapInfosFile].val IN
          /\ req[p].entry.id = Len(mapInfos)
          /\ req[p].newId = req[p].entry.id
          /\ (req[p].entry.id - 1 \in PopulatedAt(mapInfos))
             <=> ~IsNull(mapInfos[Len(mapInfos)])
          /\ \A i \in PopulatedAt(mapInfos) : i < req[p].entry.id
          /\ C12_OrderIsMaxPlusOne(req[p], mapInfos)

C12_Witness ==
    /\ req[1].op = "createMap"
    /\ Len(fs[MapInfosFile].val) = 4
    /\ PopulatedAt(fs[MapInfosFile].val) = {1, 2}
    /\ fs[MapInfosFile].val[2].order = 2
    /\ req[1].entry.id = 4 /\ req[1].entry.order = 3

\* Index 0 of a collection is null and every populated record carries its
\* position as id (positions counted from 0, as in the script).
WellIndexed(items) ==
    /\ Len(items) >= 1
    /\ IsNull(items[1])
    /\ \A i \in 1..Len(items) : ~IsNull(items[i]) => items[i].id = i - 1

\* C13: every collection file that holds a complete document has null at
\* index 0 and every populated record at the index its id names, whatever
\* creates, updates and limit changes have run.
C13_IdsAreIndexes ==
    \A c \in Collections : fs[c].st = "ok" => WellIndexed(fs[c].val)

C13_Witness ==
    /\ Quiescent /\ ~killed /\ ~log.overlapped
    /\ log.succ = 2 /\ Len(log.created) = 1
    /\ log.last.op = "limit" /\ log.last.file = log.created[1].file
    /\ Len(fs["Items"].val) = 3
    /\ ~IsNull(fs["Items"].val[2]) /\ IsNull(fs["Items"].val[3])
    /\ WellIndexed(fs["Items"].val)

\* C14: no write of a collection deletes an entity: every record that is
\* populated in the content a write replaces is populated at the same index
\* in the content it leaves, and only a limit change leaves a shorter
\* collection.
C14_NoEntityDeleted ==
    [][\A p \in Slots :
         (Steps(p) /\ req[p].pc = "flush" /\ req[p].target \in Collections
          /\ req[p].pre.st = "ok")
         => LET old == req[p].pre.val
                new == fs'[req[p].target].val
            IN /\ \A i \in 1..Len(old) :
                    ~IsNull(old[i]) => (i <= Len(new) /\ ~IsNull(new[i]))
               /\ Len(new) < Len(old) => req[p].op = "limit"]_vars

\* C16: a write to a target that does not exist skips the backup: the
\* existence check leads straight to the write, no step of that write
\* touches a backup file, and the completed write leaves the new content in
\* the target.
C16_FirstWriteSkipsBackup ==
    [][\A p \in Slots :
         /\ (Steps(p) /\ req[p].pc = "exists"
             /\ fs[req[p].target] = Absent)
            => (req'[p].pc = "open" /\ ~req'[p].existed /\ bak' = bak)
         /\ (Steps(p) /\ req[p].pc \in {"open", "flush"} /\ ~req[p].existed)
            => bak' = bak
         /\ (Steps(p) /\ req[p].pc = "flush" /\ ~req[p].existed)
            => fs'[req[p].target] = req[p].payload]_vars

C16_Witness ==
    /\ log.last.op = "createMap" /\ ~log.last.result.isError
    /\ ~log.last.bakDenied /\ ~log.overlapped /\ ~killed /\ Quiescent
    /\ log.last.newId = 2
    /\ fs[MapFilename(2)] = Json(MapData(log.last.name))
    /\ bak[MapFilename(2)] = Absent
    /\ bak[MapInfosFile] # Absent

\* The request in slot `p` overwrites, in a run without overlap and kill,
\* the file the request before it has overwritten.
SecondOverwrite(p) ==
    /\ Steps(p) /\ req[p].phase = "primary"
    /\ ~log'.overlapped /\ ~killed
    /\ log.last.wrote /\ log.last.file = req[p].target
    /\ log.last.n + 1 = req[p].n

\* C17: one backup generation: when a target is overwritten twice in a row
\* (v1 replaced by v2, v2 by v3), the backup holds v1 before the second
\* overwrite backs the target up and v2 after the second overwrite.
C17_OneBackupGeneration ==
    [][\A p \in Slots :
         /\ (SecondOverwrite(p) /\ req[p].pc = "backup" /\ req'[p].pc = "open")
            => /\ bak[req[p].target] = log.last.replaced
               /\ fs[req[p].target] = log.last.data
               /\ bak'[req[p].target] = log.last.data
         /\ (SecondOverwrite(p) /\ req[p].pc = "flush")
            => /\ fs'[req[p].target] = req[p].data
               /\ bak'[req[p].target] = log.last.data]_vars

C17_Witness ==
    /\ Quiescent /\ ~log.overlapped /\ ~killed
    /\ log.succ = 2 /\ log.last.n = 2
    /\ log.last.op = "update" /\ log.last.name = "b"
    /\ log.last.replaced # log.last.data
    /\ bak["Items"] = log.last.replaced
    /\ fs["Items"] = log.last.data
    /\ bak["Items"] # Json(<<Null>>)

\* C18: when the process is killed after a request has written its data
\* and before the version write opens the system file, the data file holds
\* the complete new content and the version counter its old value; the next
\* successful operation leaves the counter above that value.
C18_BumpLagsByOne ==
    [][/\ (killed' /\ ~killed /\ ~log.overlapped)
          => \A p \in Slots :
                LagWindow(req[p])
                => /\ fs'[req[p].file] = req[p].data
                   /\ fs'[SystemFile]
                        = Json([versionId |-> InitVersion + log.succ])
                   /\ log'.lag.version = InitVersion + log.succ
       /\ \A p \in Slots :
            (Returns(p) /\ killed /\ log.lag.n > 0 /\ ~log'.overlapped
             /\ ~log'.last.result.isError)
            => /\ fs'[SystemFile].st = "ok"
               /\ fs'[SystemFile].val.versionId > log.lag.version]_vars

C18_Witness ==
    /\ killed /\ log.lag.n = 1 /\ ~log.overlapped /\ Quiescent
    /\ log.last.n = 2 /\ ~log.last.result.isError
    /\ fs[SystemFile] = Json([versionId |-> log.lag.version + 1])
    /\ log.lag.version = InitVersion

TextBefore(text) == SubSeq(text, 1, Match(text).from - 1)

TextAfter(text) == SubSeq(text, Match(text).to + 1, Len(text))

Completed(r) ==
    /\ r.wrote
    /\ r.op \in {"createMap", "install"} => r.bodyWrote
    /\ r.op # "install" => r.bumped

\* C15: a request that has met a read failure, a write failure or a
\* rejection returns the error flag, a request that has done all its writes
\* without any returns no error flag, and the slot is free for the next
\* request.
C15_FailuresAreFlagged ==
    [][\A p \in Slots :
         Returns(p)
         => /\ log'.last.result.isError
                 <=> \/ log'.last.readFailed
                     \/ log'.last.bakDenied
                     \/ log'.last.openDenied
                     \/ ~Completed(log'.last)
            /\ ~InFlight(req'[p])]_vars

\* C21: without an engine root, an engine-scoped tool reports the feature
\* as unavailable and its result is not a failure.  The four engine-only
\* tools return { isError: true } in that case, so this fails.
C21_UnavailableIsNotFailure ==
    (log.last.op \in EngineOps /\ ~EngineConfigured(enginePath))
    => ~log.last.result.isError

\* C22: when the read of the collection fails in a create, update or
\* limit-resize request, the request returns a failure result and nothing
\* on disk changes: no file is written or created, no backup is made, and
\* the version counter stays.
C22_ReadFailureHasNoEffect ==
    [][(/\ ops' = ops + 1
        /\ log'.last.n = ops'
        /\ log'.last.op \in {"create", "update", "limit"}
        /\ log'.last.readFailed)
       => /\ log'.last.result.isError
          /\ fs' = fs
          /\ bak' = bak]_vars

\* A create request has found its collection unreadable and has returned.
C22_Witness ==
    /\ log.last.op = "create"
    /\ log.last.pc = "done"
    /\ log.last.readFailed
    /\ log.last.phase = "none"
    /\ fs[log.last.file].st # "ok"

\* The positions of the effects of kind `code` in `effects`.
EffectsOfKind(effects, code) ==
    {i \in 1..Len(effects) : effects[i].code = code}

\* The effects list is what the arguments `args` ask for.
C23_EffectsMatch(args, effects) ==
    LET hp == EffectsOfKind(effects, EffectCode.RecoverHP)
        mp == EffectsOfKind(effects, EffectCode.RecoverMP)
        st == EffectsOfKind(effects, EffectCode.AddState)
    IN /\ hp \cup mp \cup st = 1..Len(effects)
       /\ Cardinality(hp) <= 1 /\ Cardinality(mp) <= 1
       /\ Cardinality(st) <= 1
       /\ \A i \in hp, j \in mp \cup st : i < j
       /\ \A i \in mp, j \in st : i < j
       /\ hp # {} <=> (args.hpRecoveryPercent > 0 \/ args.hpRecoveryFixed > 0)
       /\ mp # {} <=> (args.mpRecoveryPercent > 0 \/ args.mpRecoveryFixed > 0)
       /\ st # {} <=> args.addStateId > 0
       /\ \A i \in hp :
            /\ effects[i].value1 = Frac(args.hpRecoveryPercent, 100)
            /\ effects[i].value2 = args.hpRecoveryFixed
       /\ \A i \in mp :
            /\ effects[i].value1 = Frac(args.mpRecoveryPercent, 100)
            /\ effects[i].value2 = args.mpRecoveryFixed
       /\ \A i \in st : effects[i].dataId = args.addStateId

\* C23: the record create_item writes has at most one effect of each kind,
\* in the order RecoverHP, RecoverMP, AddState; RecoverHP is there exactly
\* when a percent or fixed HP amount is given (value1 = percent / 100,
\* value2 = fixed), RecoverMP likewise, and AddState exactly when a state
\* is given, with that state as dataId.
C23_EffectsAsRequested ==
    [][\A p \in Slots :
       (Returns(p) /\ log'.last.op = "create" /\ ~log'.last.result.isError)
       => C23_EffectsMatch(log'.last.arg,
                           fs'["Items"].val[log'.last.newId + 1].effects)]_vars

\* The scenario of the specification: hpRecoveryPercent = 50 and
\* addStateId = 7 on a collection of length 3 give record 3 with one
\* RecoverHP effect of value1 0.5 and one AddState effect of dataId 7.
C23_Witness ==
    /\ log.last.op = "create" /\ ~log.last.result.isError
    /\ fs["Items"].st = "ok" /\ fs[SystemFile].st = "ok"
    /\ log.last.newId = 3
    /\ log.last.arg.hpRecoveryPercent = 50 /\ log.last.arg.addStateId = 7
    /\ log.last.arg.mpRecoveryPercent = 0 /\ log.last.arg.mpRecoveryFixed = 0
    /\ Len(fs["Items"].val) = 4
    /\ Len(fs["Items"].val[4].effects) = 2
    /\ fs["Items"].val[4].effects[1].value1 = Frac(50, 100)
    /\ fs["Items"].val[4].effects[2].dataId = 7
    /\ fs[SystemFile].val.versionId = InitVersion + 1

\* The number of comment openers in `code`.
Openers(code) == Cardinality({i \in 1..Len(code) : code[i].k = "/*:"})

\* C24: install_plugin prepends the header only to code without a detected
\* header, and the header it prepends is detected: code with a header is
\* written unchanged, code without one is written after exactly one new
\* header, and the written content supplied again is written unchanged,
\* without a second header.
C24_HeaderIdempotent ==
    [][LET code == req[1].code
           finalCode == req'[1].code
       IN /\ HasHeader(code) => finalCode = code
          /\ ~HasHeader(code)
             => /\ Len(finalCode) > Len(code)
                /\ SubSeq(finalCode, Len(finalCode) - Len(code) + 1,
                          Len(finalCode)) = code
                /\ Openers(finalCode) = Openers(code) + 1
          /\ HasHeader(finalCode)
          /\ ops > 0 => finalCode = code]_vars

\* Code without a header has been given one, and the outcome has been
\* supplied again.
C24_Witness ==
    /\ ops = 2
    /\ Openers(req[1].code) = 1
    /\ req[1].code[Len(req[1].code)] = CodeTok
    /\ Len(req[1].code) > MaxCodeLen

\* The request the step accepts: it has returned already or is in flight.
AcceptedRequest ==
    IF log'.last.n = ops' THEN log'.last
    ELSE req'[CHOOSE p \in Slots : req'[p].n = ops']

\* C25: an update whose id is at or beyond the length of the collection,
\* or whose slot holds the absence-marker, is rejected with the failure
\* flag and writes nothing: the collection, the backups and the version
\* counter stay as they are.
C25_RejectedUpdateWritesNothing ==
    [][ops' = ops + 1
       => LET r == AcceptedRequest IN
          (/\ r.op = "update"
           /\ fs[r.file].st = "ok"
           /\ \/ r.arg >= Len(fs[r.file].val)
              \/ IsNull(fs[r.file].val[r.arg + 1]))
          => /\ r.pc = "done"
             /\ r.result.isError
             /\ fs' = fs
             /\ bak' = bak]_vars

\* An update of a slot that holds the absence-marker has been rejected.
C25_Witness ==
    /\ log.last.op = "update" /\ log.last.pc = "done"
    /\ log.last.result.isError /\ ~log.last.readFailed
    /\ log.last.phase = "none"
    /\ fs[log.last.file].st = "ok"
    /\ log.last.arg < Len(fs[log.last.file].val)
    /\ IsNull(fs[log.last.file].val[log.last.arg + 1])
    /\ fs[SystemFile] = Json([versionId |-> InitVersion])

\* The write of slot `p` that completes in the step is the collection
\* write of an update that replaces complete content.
UpdateWrite(p) ==
    /\ Steps(p) /\ req[p].pc = "flush" /\ req[p].phase = "primary"
    /\ req[p].op = "update" /\ req[p].pre.st = "ok"

\* The record `new` is the record `old` with the name of the request.
UpdatedFrom(old, new, name) ==
    /\ new.present = old.present /\ new.id = old.id /\ new.order = old.order
    /\ new.name = IF name = Undefined THEN old.name ELSE name

\* C26: the write of a successful update changes only the fields the
\* request supplies: the content it leaves has the length of the content it
\* replaces, the same records at every other index, and at its own index
\* the same record but for the supplied fields.
C26_UpdateChangesOnlySupplied ==
    [][\A p \in Slots :
         UpdateWrite(p)
         => LET old == req[p].pre.val
                new == fs'[req[p].target].val
                at == req[p].arg + 1
            IN /\ Len(new) = Len(old)
               /\ \A i \in 1..Len(old) : i # at => new[i] = old[i]
               /\ UpdatedFrom(old[at], new[at], req[p].name)]_vars

\* The write of slot `p` that completes in the step is the collection
\* write of a limit change that replaces complete content.
LimitWrite(p) ==
    /\ Steps(p) /\ req[p].pc = "flush" /\ req[p].phase = "primary"
    /\ req[p].op = "limit" /\ req[p].pre.st = "ok"

\* The collection `new` is the collection `old` resized to `limit`.
ResizedFrom(old, new, limit) ==
    /\ Len(new) = limit + 1
    /\ \A i \in 1..Len(new) :
         IF i <= Len(old) THEN new[i] = old[i] ELSE IsNull(new[i])

\* C27: the write of a successful set_database_limit(limit) leaves exactly
\* limit + 1 entries; every entry below the smaller of the old and the new
\* length is the entry the write replaces, and every added entry is the
\* absence-marker.
C27_LimitResizes ==
    [][\A p \in Slots :
         LimitWrite(p)
         => ResizedFrom(req[p].pre.val, fs'[req[p].target].val,
                        req[p].arg)]_vars

\* The entries a registry script registers: the elements of the array
\* literal of its assignment, which ends at the first "]" after its "[".
Registered(text) ==
    LET m == Match(text) IN
    IF ~m.found THEN <<>>
    ELSE LET end == CHOOSE j \in (m.from + 2)..Len(text) :
                       /\ text[j].k = "close"
                       /\ \A x \in (m.from + 2)..(j - 1) : text[x].k # "close"
         IN SubSeq(text, m.from + 2, end - 1)

\* The entries of `plugins` that are not named `name`, in their order.
OtherPlugins(plugins, name) ==
    LET Other(e) == e.name # name IN SelectSeq(plugins, Other)

\* The positions of the entries named `name`.
PositionsOf(plugins, name) ==
    {i \in 1..Len(plugins) : plugins[i].name = name}

\* C28: when the registry write of install_plugin completes, the registry
\* holds exactly one entry of the installed name, at the position of the
\* entry it replaces if there was one, and the entries of every other name
\* are the ones registered before, unchanged and in the same order.
C28_OneEntryOthersKept ==
    [][\A p \in Slots :
         (Steps(p) /\ req[p].pc = "flush" /\ req[p].phase = "registry"
          /\ req[p].pre.st = "ok")
         => LET old == Registered(req[p].pre.val)
                new == Registered(fs'[RegistryFile].val)
                name == req[p].name
            IN /\ Cardinality(PositionsOf(new, name)) = 1
               /\ PositionsOf(old, name) # {}
                  => PositionsOf(new, name) = PositionsOf(old, name)
               /\ OtherPlugins(new, name) = OtherPlugins(old, name)]_vars

\* The request that returns in the step is a successful limit change to
\* the limit the collection had when it was read.
SameLimit(p) ==
    /\ Returns(p) /\ log'.last.op = "limit" /\ ~log'.last.result.isError
    /\ log'.last.readLen = log'.last.arg + 1

\* C29: a set_database_limit to the current limit is no no-op on disk: the
\* collection file is written again with the content it replaces, the
\* backup holds that content too, and the version counter is one more than
\* before.
C29_SameLimitStillWrites ==
    [][\A p \in Slots :
         SameLimit(p)
         => /\ log'.last.wrote /\ log'.last.bumped
            /\ log'.last.data = log'.last.replaced
            /\ fs'[log'.last.file] = log'.last.data
            /\ bak'[log'.last.file] = log'.last.data
            /\ req[p].pre.st = "ok"
            /\ fs'[SystemFile] =
                  Json([versionId |-> req[p].pre.val.versionId + 1])]_vars

\* The burst is over: every request of the burst has been sent and has
\* returned, and the server has not been killed.
BurstDone ==
    client = "burst" /\ ops = Cardinality(Slots) /\ Quiescent /\ ~killed

\* The create requests of the burst went to different collections and
\* have all succeeded.
BurstCreated ==
    /\ BurstDone
    /\ Len(log.created) = Cardinality(Slots)
    /\ log.created[1].file # log.created[2].file

\* The request of slot `p` is a create of a burst that returns in the step;
\* no backup or write of it was refused, and every other request in flight
\* is a create on another collection.
BurstCreateReturns(p) ==
    /\ Returns(p) /\ client = "burst" /\ ~killed
    /\ log'.last.op = "create"
    /\ ~log'.last.bakDenied /\ ~log'.last.openDenied
    /\ \A q \in Slots \ {p} :
         InFlight(req[q]) => (req[q].op = "create" /\ req[q].file # req[p].file)

\* C30: the create requests of a burst against different collections all
\* succeed (unless a backup or a write is refused); when they have, every
\* collection ends with its new record as last entry, and the version
\* counter is the initial value plus the number of requests.
C30_BurstBumpsPerRequest ==
    [][/\ \A p \in Slots :
            BurstCreateReturns(p) => ~log'.last.result.isError
       /\ BurstCreated'
          => /\ \A i \in 1..Len(log'.created) :
                  LET c == fs'[log'.created[i].file] IN
                  /\ c.st = "ok"
                  /\ Len(c.val) = log'.created[i].id + 1
                  /\ c.val[Len(c.val)].id = log'.created[i].id
             /\ fs'[SystemFile] =
                   Json([versionId |-> InitVersion + Cardinality(Slots)])]_vars

====
